---- MODULE Spec2Model ----
(***************************************************************************)
(* Model of the Loto 6/45 server (src/src/server.js) over the schema of    *)
(* src/unnamed/part_000: the Round, Ticket and Draw tables and the request *)
(* handlers POST /new-round, POST /close, POST /tickets,                   *)
(* POST /store-results and GET /t/:id.                                     *)
(*                                                                         *)
(* A JavaScript string is a sequence of one-character strings.  Every      *)
(* awaited store call of a handler is one atomic step; the synchronous     *)
(* code around it belongs to the step of the call that follows it.         *)
(***************************************************************************)
EXTENDS Integers, Sequences, FiniteSets, TLC

\* ------------------------------------------------------------------ bounds
NumProcs == 2       \* requests that may be in flight at once
MaxRounds == 3      \* rows the Round table may hold
MaxTickets == 2     \* rows the Ticket table may hold
MaxRequests == 5    \* requests the server receives in one run, interleaved
MaxSeqRequests == 8 \* requests the server receives in one run, one at a time

Procs == 1..NumProcs

\* ------------------------------------------------------- JavaScript values
NULL == [null |-> TRUE]

Undefined == [t |-> "undefined"]
JsString(chars) == [t |-> "string", v |-> chars]
JsArray(elems) == [t |-> "array", v |-> elems]
JsNum(n) == [t |-> "num", v |-> n]
JsNull == [t |-> "null"]

Digits == <<"0", "1", "2", "3", "4", "5", "6", "7", "8", "9">>

IsDigit(c) == \E i \in 1..10 : Digits[i] = c

DigitVal(c) == (CHOOSE i \in 1..10 : Digits[i] = c) - 1

IsSpace(c) == c = " "

Letters == {"A", "B", "Z", "a", "z"}

IsAlnum(c) == IsDigit(c) \/ c \in Letters

\* Number.prototype.toString of a non-negative integer.
RECURSIVE NatToString(_)
NatToString(n) ==
  IF n < 10 THEN <<Digits[n + 1]>>
  ELSE NatToString(n \div 10) \o <<Digits[(n % 10) + 1]>>

IntToString(n) == IF n < 0 THEN <<"-">> \o NatToString(-n) ELSE NatToString(n)

\* The string Array.prototype.join uses for one element: null and undefined
\* give the empty string.
ElemToString(e) ==
  CASE e.t = "num" -> IntToString(e.v)
    [] e.t = "string" -> e.v
    [] OTHER -> <<>>

\* Array.prototype.join(',') over JavaScript values.
RECURSIVE join(_)
join(arr) ==
  IF arr = <<>> THEN <<>>
  ELSE IF Len(arr) = 1 THEN ElemToString(arr[1])
  ELSE ElemToString(arr[1]) \o <<",">> \o join(Tail(arr))

\* String.prototype.split(','): the pieces between the commas; the empty
\* string gives one empty piece.
RECURSIVE splitFrom(_, _)
splitFrom(s, cur) ==
  IF s = <<>> THEN <<cur>>
  ELSE IF s[1] = "," THEN <<cur>> \o splitFrom(Tail(s), <<>>)
  ELSE splitFrom(Tail(s), Append(cur, s[1]))

split(s) == splitFrom(s, <<>>)

\* String.prototype.trim.
RECURSIVE trimStart(_)
trimStart(s) ==
  IF s # <<>> /\ IsSpace(s[1]) THEN trimStart(Tail(s)) ELSE s

RECURSIVE trimEnd(_)
trimEnd(s) ==
  IF s # <<>> /\ IsSpace(s[Len(s)]) THEN trimEnd(SubSeq(s, 1, Len(s) - 1)) ELSE s

trim(s) == trimEnd(trimStart(s))

\* Array.prototype.filter(Boolean) over strings: the empty string is falsy.
filterBoolean(arr) == SelectSeq(arr, LAMBDA x : x # <<>>)

AllDigits(s) == \A i \in 1..Len(s) : IsDigit(s[i])

RECURSIVE DigitsValue(_)
DigitsValue(s) ==
  IF s = <<>> THEN 0
  ELSE 10 * DigitsValue(SubSeq(s, 1, Len(s) - 1)) + DigitVal(s[Len(s)])

NaN == [kind |-> "NaN"]
Int_(n) == [kind |-> "int", v |-> n]
Frac == [kind |-> "frac"]

DotAt(s) == IF \E i \in 1..Len(s) : s[i] = "."
            THEN CHOOSE i \in 1..Len(s) : s[i] = "." /\ \A j \in 1..(i - 1) : s[j] # "."
            ELSE 0

\* An unsigned decimal literal: digits, optionally with one '.', at least one
\* digit in all.  A fraction of zeros only is still an integer.
UnsignedNumber(s) ==
  LET d == DotAt(s)
      ip == IF d = 0 THEN s ELSE SubSeq(s, 1, d - 1)
      fp == IF d = 0 THEN <<>> ELSE SubSeq(s, d + 1, Len(s))
  IN  IF ~AllDigits(ip) \/ ~AllDigits(fp) \/ (ip = <<>> /\ fp = <<>>) THEN NaN
      ELSE IF DigitsValue(fp) # 0 THEN Frac
      ELSE Int_(DigitsValue(ip))

\* Number(string) for strings over the digits, the letters of Letters,
\* ' ', '.', '+' and '-' (no exponent, radix prefix or Infinity can be
\* written with them): white space is trimmed, the empty string is 0.
Number(str) ==
  LET s == trim(str)
  IN  IF s = <<>> THEN Int_(0)
      ELSE IF s[1] = "-"
        THEN LET u == UnsignedNumber(Tail(s))
             IN  IF u.kind = "int" THEN Int_(-u.v) ELSE u
      ELSE IF s[1] = "+" THEN UnsignedNumber(Tail(s))
      ELSE UnsignedNumber(s)

\* arr.map((v) => v.trim()), arr.map(Number) and the numbers as array
\* elements.
mapTrim(arr) == [i \in 1..Len(arr) |-> trim(arr[i])]

mapNumber(arr) == [i \in 1..Len(arr) |-> Number(arr[i])]

mapJsNum(arr) == [i \in 1..Len(arr) |-> JsNum(arr[i])]

\* ------------------------------------------------------ request inputs
Str(s) == JsString(s)

ValidPersonalId == <<"A", "B", "1">>

SixNumbers == <<"1", ",", "2", ",", "3", ",", "4", ",", "5", ",", "6">>

FiveNumbers == <<"1", ",", "2", ",", "3", ",", "4", ",", "5">>

\* Bodies POST /tickets is called with: req.body.personalId,
\* req.body.numbers and the caller's req.oidc.user.sub (NULL when anonymous).
TicketBodies ==
  { [personalId |-> Str(ValidPersonalId), numbers |-> Str(SixNumbers), sub |-> NULL],
    [personalId |-> Str(ValidPersonalId), numbers |-> Str(FiveNumbers), sub |-> NULL],
    [personalId |-> Undefined, numbers |-> Str(SixNumbers), sub |-> NULL] }

\* Bodies POST /store-results is called with: req.body.numbers.
DrawBodies ==
  { [numbers |-> Undefined],
    [numbers |-> JsArray(<<>>)],
    [numbers |-> JsArray(<<JsNum(7), JsNum(45)>>)] }

\* Ids GET /t/:id is called with: every id a ticket can have, and one more.
TicketIds == 1..(MaxTickets + 1)

\* ------------------------------------------------------------ the store
VARIABLES
  rounds,     \* Round table: rounds[id] = [isOpen], id assigned serially
  tickets,    \* Ticket table: tickets[id] = [personalId, numbersCsv, roundId, userSub]
  draws,      \* Draw table: draws[id] = [roundId, numbers]
  pc,         \* where each request handler stands
  local,      \* the handler's req and its locals current, openRound, last, ticket
  served,     \* how many requests the server has received
  res         \* the response the last step sent, to whom and from which line
              \* of server.js; NULL if it sent none

vars == <<rounds, tickets, draws, pc, local, served, res>>

store == <<rounds, tickets, draws>>

\* Round.draw of the schema: the Draw whose roundId is the round's id.
DrawOf(ds, id) ==
  IF \E d \in 1..Len(ds) : ds[d].roundId = id
  THEN ds[CHOOSE d \in 1..Len(ds) : ds[d].roundId = id]
  ELSE NULL

\* A Round row with include: { draw: true }.
RoundRow(rs, ds, id) == [id |-> id, isOpen |-> rs[id].isOpen, draw |-> DrawOf(ds, id)]

OpenIds(rs) == {i \in 1..Len(rs) : rs[i].isOpen}

\* findFirst without the where clause: the latest round, open or not.
getOpenRoundMutant(rs, ds) ==
  IF rs = <<>> THEN {NULL} ELSE {RoundRow(rs, ds, Len(rs))}

\* The rows findFirst({ where: { isOpen: true } }) may return: no order is
\* asked for, so any open round; NULL when there is none.
getOpenRound(rs, ds) ==
  IF OpenIds(rs) = {} THEN {NULL}
  ELSE {RoundRow(rs, ds, i) : i \in OpenIds(rs)}

\* findFirst with orderBy: { id: 'asc' }: the round with the least id.
getLastRoundMutant(rs, ds) ==
  IF rs = <<>> THEN NULL ELSE RoundRow(rs, ds, 1)

\* findFirst({ orderBy: { id: 'desc' } }): the round with the greatest id.
getLastRound(rs, ds) ==
  IF rs = <<>> THEN NULL ELSE RoundRow(rs, ds, Len(rs))

\* updateMany with the flag inverted: every closed round is opened.
closeAllOpenMutant(rs) == [i \in 1..Len(rs) |-> [rs[i] EXCEPT !.isOpen = TRUE]]

\* updateMany({ where: { isOpen: true }, data: { isOpen: false } }).
closeAllOpen(rs) == [i \in 1..Len(rs) |-> [rs[i] EXCEPT !.isOpen = FALSE]]

\* round.create({ data: {} }): the column's default, false.
RoundCreateDataMutant == [isOpen |-> FALSE]

\* round.create({ data: { isOpen: true } }).
RoundCreateData == [isOpen |-> TRUE]

\* round.update({ where: { id }, data: { isOpen: false } }).
\* update with where: { id: 1 }: the first round is closed, whatever id.
closeRoundMutant(rs, id) == [rs EXCEPT ![1].isOpen = FALSE]

closeRound(rs, id) == [rs EXCEPT ![id].isOpen = FALSE]

\* A Draw table without the unique index: no insert is rejected.
DrawRoundIdTakenMutant(ds, id) == FALSE

\* The unique index Draw_roundId_key: an insert with a roundId that a row
\* already has is rejected.
DrawRoundIdTaken(ds, id) == \E d \in 1..Len(ds) : ds[d].roundId = id

Response(status, message) == [status |-> status, body |-> <<message>>]

\* The handler's promise rejected before it sent a response.
Rejected == [status |-> 0, body |-> <<"unhandled rejection">>]

\* ------------------------------------------------------- ticketSchema
MaxPersonalIdLen == 20

MinCount == 6

MaxCount == 10

MinNumber == 1

MaxNumber == 45

\* The issues of the personalId field, in the order of its checks; every
\* check of a string runs, a failed one adds its message.  The issue of a
\* value that is no string carries the path of its field.
personalIdIssues(v) ==
  IF v.t # "string" THEN <<"personalId: Required">>
  ELSE (IF Len(v.v) < 1 THEN <<"Osobna/putovnica je obavezna.">> ELSE <<>>)
       \o (IF Len(v.v) > MaxPersonalIdLen THEN <<"Predugacak broj dokumenta.">> ELSE <<>>)
       \o (IF Len(v.v) >= 1 /\ \A i \in 1..Len(v.v) : IsAlnum(v.v[i])
           THEN <<>> ELSE <<"Smiju biti samo slova i brojke.">>)

\* const arr = s.split(',').map(trim).filter(Boolean).map(Number)
parseNumbers(s) == mapNumber(filterBoolean(mapTrim(split(s))))

\* The range check with its lower limit off by one.
InRangeMutant(n) == n.kind = "int" /\ n.v >= MinNumber - 1 /\ n.v <= MaxNumber

InRange(n) == n.kind = "int" /\ n.v >= MinNumber /\ n.v <= MaxNumber

HasDuplicates(arr) == Cardinality({arr[i] : i \in 1..Len(arr)}) # Len(arr)

\* The transform of the numbers field: [throws, message] or [throws, value].
numbersTransform(s) ==
  LET arr == parseNumbers(s)
  IN  IF Len(arr) < MinCount \/ Len(arr) > MaxCount
        THEN [throws |-> TRUE, message |-> "Mora biti od 6 do 10 brojeva."]
      ELSE IF \E i \in 1..Len(arr) : ~InRange(arr[i])
        THEN [throws |-> TRUE, message |-> "Svi brojevi moraju biti cijeli izmedu 1 i 45."]
      ELSE IF HasDuplicates(arr)
        THEN [throws |-> TRUE, message |-> "Ne smije biti duplikata."]
      ELSE [throws |-> FALSE, value |-> [i \in 1..Len(arr) |-> arr[i].v]]

\* ticketSchema.parse: the fields are parsed in the order of the schema and
\* their issues collected; an Error thrown by the transform leaves parse at
\* once, whatever issues were collected before it.  [ok, error] or
\* [ok, personalId, numbers]; error is the messages of e.message.
ticketSchemaParse(body) ==
  LET idIssues == personalIdIssues(body.personalId)
      isStr == body.numbers.t = "string"
      tr == IF isStr THEN numbersTransform(body.numbers.v) ELSE [throws |-> FALSE]
      issues == idIssues \o (IF isStr THEN <<>> ELSE <<"numbers: Required">>)
  IN  IF tr.throws THEN [ok |-> FALSE, error |-> <<tr.message>>]
      ELSE IF issues # <<>> THEN [ok |-> FALSE, error |-> issues]
      ELSE [ok |-> TRUE, personalId |-> body.personalId.v, numbers |-> tr.value]

\* ------------------------------------------------------------ handlers
\* The locals of a handler that is not running.
NoLocals == [req |-> NULL, current |-> NULL, openRound |-> NULL, last |-> NULL, ticket |-> NULL]

Init ==
  /\ rounds = <<>>
  /\ tickets = <<>>
  /\ draws = <<>>
  /\ pc = [p \in Procs |-> "idle"]
  /\ local = [p \in Procs |-> NoLocals]
  /\ served = 0
  /\ res = NULL

Request(op, body) == [NoLocals EXCEPT !.req = [op |-> op, body |-> body]]

\* A handler returns at a line of server.js: its locals are gone, the
\* response is sent.
Return(p, line, response) ==
  /\ pc' = [pc EXCEPT ![p] = "idle"]
  /\ local' = [local EXCEPT ![p] = NoLocals]
  /\ res' = [to |-> p, line |-> line, response |-> response]

\* A handler goes on to its next awaited call with the locals l.
Goto(p, label, l) ==
  /\ pc' = [pc EXCEPT ![p] = label]
  /\ local' = [local EXCEPT ![p] = l]
  /\ res' = NULL

\* A request arrives for a handler that is free.
Receive(p) ==
  /\ pc[p] = "idle"
  /\ served' = served + 1

\* Requests that will still insert a Round, a Ticket.
RoundsToCome == Cardinality({q \in Procs : pc[q] \in {"nr_updateMany", "nr_create"}})

TicketsToCome == Cardinality({q \in Procs : pc[q] = "t_create"})

\* The handler without its early return.
AlreadyOpenMutant(cur) == FALSE

\* if (current) return res.status(204).end()
AlreadyOpen(cur) == cur # NULL

\* POST /new-round, lines 227-228: getOpenRound and the early return.
NewRoundGet(p) ==
  /\ Receive(p)
  /\ Len(rounds) + RoundsToCome < MaxRounds
  /\ \E cur \in getOpenRound(rounds, draws) :
       IF AlreadyOpen(cur)
       THEN Return(p, 228, Response(204, ""))
       ELSE Goto(p, "nr_updateMany", [Request("POST /new-round", NULL) EXCEPT !.current = cur])
  /\ UNCHANGED store

\* POST /new-round, line 229: updateMany.
NewRoundUpdateMany(p) ==
  /\ pc[p] = "nr_updateMany"
  /\ rounds' = closeAllOpen(rounds)
  /\ Goto(p, "nr_create", local[p])
  /\ UNCHANGED <<tickets, draws, served>>

\* POST /new-round, lines 230-231: create and the response.
NewRoundCreate(p) ==
  /\ pc[p] = "nr_create"
  /\ rounds' = Append(rounds, RoundCreateData)
  /\ Return(p, 231, Response(204, ""))
  /\ UNCHANGED <<tickets, draws, served>>

\* POST /close, lines 235-236.
CloseGet(p) ==
  /\ Receive(p)
  /\ \E cur \in getOpenRound(rounds, draws) :
       IF cur = NULL
       THEN Return(p, 236, Response(204, ""))
       ELSE Goto(p, "cl_update", [Request("POST /close", NULL) EXCEPT !.current = cur])
  /\ UNCHANGED store

\* POST /close, lines 237-238.
CloseUpdate(p) ==
  /\ pc[p] = "cl_update"
  /\ rounds' = closeRound(rounds, local[p].current.id)
  /\ Return(p, 238, Response(204, ""))
  /\ UNCHANGED <<tickets, draws, served>>

\* POST /tickets, lines 157-158: getOpenRound and the early return.
TicketsGet(p, body) ==
  /\ Receive(p)
  /\ Len(tickets) + TicketsToCome < MaxTickets
  /\ \E r \in getOpenRound(rounds, draws) :
       IF r = NULL
       THEN Return(p, 158, Response(403, "Uplate nisu aktivne."))
       ELSE Goto(p, "t_create", [Request("POST /tickets", body) EXCEPT !.openRound = r])
  /\ UNCHANGED store

\* The row with its numbers joined last to first.
TicketDataMutant(parsed, round, sub) ==
  [personalId |-> parsed.personalId,
   numbersCsv |-> join(mapJsNum([i \in 1..Len(parsed.numbers) |->
                                   parsed.numbers[Len(parsed.numbers) + 1 - i]])),
   roundId |-> round.id,
   userSub |-> sub]

\* The row ticket.create inserts, lines 167-172.
TicketData(parsed, round, sub) ==
  [personalId |-> parsed.personalId,
   numbersCsv |-> join(mapJsNum(parsed.numbers)),
   roundId |-> round.id,
   userSub |-> sub]

\* POST /tickets, lines 160-173 and 182-184: parse, then create; a throw of
\* parse is caught and answered with 400.
TicketsCreate(p) ==
  /\ pc[p] = "t_create"
  /\ LET l == local[p]
         parsed == ticketSchemaParse(l.req.body)
     IN  IF parsed.ok
         THEN /\ tickets' = Append(tickets, TicketData(parsed, l.openRound, l.req.body.sub))
              /\ Goto(p, "t_qr", [l EXCEPT !.ticket = [id |-> Len(tickets) + 1]])
         ELSE /\ Return(p, 183, [status |-> 400, body |-> parsed.error])
              /\ UNCHANGED tickets
  /\ UNCHANGED <<rounds, draws, served>>

\* POST /tickets, lines 175-184: QRCode.toBuffer resolves and the image is
\* sent, or it rejects and the catch answers with 400.
TicketsQr(p) ==
  /\ pc[p] = "t_qr"
  /\ \E resolves \in BOOLEAN :
       IF resolves
       THEN Return(p, 181, Response(200, "image/png"))
       ELSE Return(p, 183, Response(400, "QRCode error"))
  /\ UNCHANGED <<store, served>>

\* POST /store-results, lines 242-244.
StoreResultsGetOpen(p, body) ==
  /\ Receive(p)
  /\ \E open \in getOpenRound(rounds, draws) :
       IF open # NULL /\ open.isOpen
       THEN Return(p, 244, Response(400, "Uplate su aktivne."))
       ELSE Goto(p, "sr_getLast", Request("POST /store-results", body))
  /\ UNCHANGED store

\* The handler without its check of last.draw.
DrawAlreadyExistsMutant(l) == FALSE

\* if (last.draw) return res.status(400).send('Rezultati vec postoje.')
DrawAlreadyExists(l) == l.draw # NULL

\* POST /store-results, lines 245-248.
StoreResultsGetLast(p) ==
  /\ pc[p] = "sr_getLast"
  /\ LET l == getLastRound(rounds, draws)
     IN  IF l = NULL THEN Return(p, 246, Response(400, "Nema evidentiranih kola."))
         ELSE IF DrawAlreadyExists(l) THEN Return(p, 247, Response(400, "Rezultati vec postoje."))
         ELSE IF local[p].req.body.numbers.t # "array"
           THEN Return(p, 248, Response(400, "Nedostaje polje numbers."))
         ELSE Goto(p, "sr_create", [local[p] EXCEPT !.last = l])
  /\ UNCHANGED <<store, served>>

\* The row draw.create inserts, line 250.
DrawData(l, numbers) == [roundId |-> l.id, numbers |-> join(numbers.v)]

\* The handler with draw.upsert in the place of draw.create: the Draw of the
\* round, if it has one, gets the numbers of this request.
StoreResultsCreateMutant(p) ==
  /\ pc[p] = "sr_create"
  /\ LET row == DrawData(local[p].last, local[p].req.body.numbers)
     IN  IF \E d \in 1..Len(draws) : draws[d].roundId = row.roundId
         THEN draws' = [d \in 1..Len(draws) |->
                          IF draws[d].roundId = row.roundId THEN row ELSE draws[d]]
         ELSE draws' = Append(draws, row)
  /\ Return(p, 251, Response(204, ""))
  /\ UNCHANGED <<rounds, tickets, served>>

\* POST /store-results, lines 250-251: the insert, which the unique index
\* on roundId may reject; the handler catches nothing.
StoreResultsCreate(p) ==
  /\ pc[p] = "sr_create"
  /\ IF DrawRoundIdTaken(draws, local[p].last.id)
     THEN /\ Return(p, 250, Rejected)
          /\ UNCHANGED draws
     ELSE /\ draws' = Append(draws, DrawData(local[p].last, local[p].req.body.numbers))
          /\ Return(p, 251, Response(204, ""))
  /\ UNCHANGED <<rounds, tickets, served>>

\* The page of GET /t/:id, lines 195-198 and 213-214: the ticket's numbers,
\* the drawn numbers, and whether the page says they are not published yet.
TicketPage(t, draw) ==
  LET nums == mapNumber(split(t.numbersCsv))
      drawn == IF draw # NULL /\ draw.numbers # <<>>
               THEN mapNumber(split(draw.numbers))
               ELSE <<>>
  IN  [status |-> 200, body |-> <<"Listic">>, nums |-> nums, draw |-> drawn,
       notPublished |-> (Len(drawn) = 0)]

\* GET /t/:id, lines 189-221: one findUnique with the round and its draw.
TicketView(p, id) ==
  /\ Receive(p)
  /\ IF id \in 1..Len(tickets)
     THEN Return(p, 200, TicketPage(tickets[id], DrawOf(draws, tickets[id].roundId)))
     ELSE Return(p, 193, Response(404, "Listic nije pronaden."))
  /\ UNCHANGED store

\* The run receives at most n requests.
Within(n) == served' <= n

\* Requests interleave at their awaited calls.
Next ==
  \E p \in Procs :
    \/ NewRoundGet(p) /\ Within(MaxRequests)
    \/ NewRoundUpdateMany(p)
    \/ NewRoundCreate(p)
    \/ CloseGet(p) /\ Within(MaxRequests)
    \/ CloseUpdate(p)
    \/ \E body \in TicketBodies : TicketsGet(p, body) /\ Within(MaxRequests)
    \/ TicketsCreate(p)
    \/ TicketsQr(p)
    \/ \E body \in DrawBodies : StoreResultsGetOpen(p, body) /\ Within(MaxRequests)
    \/ StoreResultsGetLast(p)
    \/ StoreResultsCreate(p)
    \/ \E id \in TicketIds : TicketView(p, id) /\ Within(MaxRequests)

Spec == Init /\ [][Next]_vars

\* Requests run one at a time: a handler takes steps only while no other
\* request is in flight.
Alone(p) == \A q \in Procs \ {p} : pc[q] = "idle"

SeqNext ==
  \E p \in Procs :
    \/ Alone(p) /\ NewRoundGet(p) /\ Within(MaxSeqRequests)
    \/ Alone(p) /\ NewRoundUpdateMany(p)
    \/ Alone(p) /\ NewRoundCreate(p)
    \/ Alone(p) /\ CloseGet(p) /\ Within(MaxSeqRequests)
    \/ Alone(p) /\ CloseUpdate(p)
    \/ \E body \in TicketBodies : Alone(p) /\ TicketsGet(p, body) /\ Within(MaxSeqRequests)
    \/ Alone(p) /\ TicketsCreate(p)
    \/ Alone(p) /\ TicketsQr(p)
    \/ \E body \in DrawBodies : Alone(p) /\ StoreResultsGetOpen(p, body) /\ Within(MaxSeqRequests)
    \/ Alone(p) /\ StoreResultsGetLast(p)
    \/ Alone(p) /\ StoreResultsCreate(p)
    \/ \E id \in TicketIds : Alone(p) /\ TicketView(p, id) /\ Within(MaxSeqRequests)

SeqSpec == Init /\ [][SeqNext]_vars

\* ---------------------------------------------- the validation of a ticket
\* The numbers 1, 2, ..., n as pieces of a numbers field.
FirstPieces(n) == [i \in 1..n |-> NatToString(i)]

\* Pieces a numbers field is written with: numerals in and out of range,
\* with white space, a leading zero, a sign or a fraction, a word and
\* nothing.
Pieces ==
  { <<"4", "5">>, <<"4", "6">>, <<"0">>, <<"2">>, <<" ", "7", " ">>, <<"0", "7">>,
    <<"7", ".", "0">>, <<"7", ".", "5">>, <<"-", "7">>, <<"+", "7">>, <<"a">>,
    <<>>, <<" ">> }

\* The pieces written one after the other with commas between them.
RECURSIVE Csv(_)
Csv(pieces) ==
  IF pieces = <<>> THEN <<>>
  ELSE IF Len(pieces) = 1 THEN pieces[1]
  ELSE pieces[1] \o <<",">> \o Csv(Tail(pieces))

\* The numbers fields: 1..n for n around the limits of the count, with the
\* first or the last piece replaced by each of Pieces.
NumbersInputs ==
  { Csv([FirstPieces(n) EXCEPT ![k] = x]) :
      n \in {MinCount - 1, MinCount, MaxCount, MaxCount + 1}, k \in {1, MinCount - 1}, x \in Pieces }

\* n times the letter Z.
Zs(n) == [i \in 1..n |-> "Z"]

\* The personalId fields: valid ones, the empty one, one too long, ones with
\* a character that is no letter or digit, and a missing one.
PersonalIdInputs ==
  { Str(ValidPersonalId), Str(<<"7">>), Str(Zs(MaxPersonalIdLen)),
    Str(<<>>), Str(Zs(MaxPersonalIdLen + 1)), Str(<<"A", "-">>), Str(<<"a", " ", "z">>),
    Undefined }

ValBodies ==
  { [personalId |-> id, numbers |-> Str(n), sub |-> NULL] :
      id \in PersonalIdInputs, n \in NumbersInputs }
  \cup { [personalId |-> id, numbers |-> Undefined, sub |-> NULL] : id \in PersonalIdInputs }

\* A POST /tickets request with any of ValBodies has found round 1 open.
ValInit ==
  /\ rounds = <<RoundCreateData>>
  /\ tickets = <<>>
  /\ draws = <<>>
  /\ pc = [p \in Procs |-> IF p = 1 THEN "t_create" ELSE "idle"]
  /\ \E body \in ValBodies :
       local = [p \in Procs |->
                 IF p = 1
                 THEN [Request("POST /tickets", body) EXCEPT
                         !.openRound = RoundRow(rounds, draws, 1)]
                 ELSE NoLocals]
  /\ served = 2
  /\ res = NULL

\* The request is served, and the ticket it may have created is looked at.
ValNext ==
  \E p \in Procs :
    \/ TicketsCreate(p)
    \/ TicketsQr(p)
    \/ \E id \in TicketIds : TicketView(p, id) /\ Within(MaxRequests)

ValSpec == ValInit /\ [][ValNext]_vars

\* ---------------------------------------------------------- properties
Sent(line) == res # NULL /\ res.line = line

\* C1: when /new-round and /close requests (and the others) run one at a
\* time, at most one Round has isOpen = true in every reachable state.
C1_AtMostOneOpenRound == Cardinality(OpenIds(rounds)) <= 1

\* A second round was opened after the first was closed.
C1_Witness == Len(rounds) >= 2 /\ OpenIds(rounds) = {Len(rounds)} /\ Sent(231)

\* C2: with every awaited store call its own step, no reachable state has
\* two Rounds with isOpen = true.
C2_NoTwoOpenRounds ==
  \A i, j \in 1..Len(rounds) : rounds[i].isOpen /\ rounds[j].isOpen => i = j

\* C3: the Round a Ticket references has isOpen = true at the moment the
\* ticket is inserted.
C3_TicketRoundOpenAtInsert ==
  [][Len(tickets') > Len(tickets) =>
       rounds[tickets'[Len(tickets')].roundId].isOpen]_vars

\* C4: in every reachable state each Round has at most one Draw.
C4_OneDrawPerRound ==
  \A d, e \in 1..Len(draws) : draws[d].roundId = draws[e].roundId => d = e

\* A second insert for the same round was rejected by the unique index.
C4_Witness == Sent(250) /\ res.response = Rejected /\ Len(draws) >= 1

\* C5: the Round a Draw is recorded for has isOpen = false at the moment the
\* draw is inserted.
C5_DrawRoundClosedAtInsert ==
  [][Len(draws') > Len(draws) =>
       ~rounds[draws'[Len(draws')].roundId].isOpen]_vars

\* C6: a POST /tickets request whose lookup finds no Round open is answered
\* with 403 whatever its body, the handler returns there and the Ticket
\* table is unchanged.
C6_AdmissionClosed ==
  [][\A p \in Procs : \A body \in TicketBodies :
       TicketsGet(p, body) /\ OpenIds(rounds) = {} =>
         /\ pc'[p] = "idle"
         /\ res' # NULL
         /\ res'.response = Response(403, "Uplate nisu aktivne.")
         /\ tickets' = tickets]_vars

\* A request was refused with 403 while a closed round exists.
C6_Witness ==
  Sent(158) /\ res.response.status = 403 /\ rounds # <<>> /\ OpenIds(rounds) = {}

\* C7: with requests one at a time, no round open and a most recent round:
\* a /store-results request with an array of numbers inserts one Draw for
\* that round when it has none, and is answered 400 'Rezultati vec postoje.'
\* with the Draw table unchanged when it has one.
C7_PublishDrawOncePerRound ==
  [][\A p \in Procs :
       /\ \A body \in DrawBodies :
            StoreResultsGetOpen(p, body) /\ OpenIds(rounds) = {} => pc'[p] = "sr_getLast"
       /\ StoreResultsGetLast(p) /\ rounds # <<>> /\ OpenIds(rounds) = {} =>
            IF DrawOf(draws, Len(rounds)) # NULL
            THEN /\ pc'[p] = "idle"
                 /\ res' # NULL
                 /\ res'.response = Response(400, "Rezultati vec postoje.")
                 /\ draws' = draws
            ELSE local[p].req.body.numbers.t = "array" => pc'[p] = "sr_create"
       /\ StoreResultsCreate(p) =>
            /\ OpenIds(rounds) = {}
            /\ DrawOf(draws, Len(rounds)) = NULL
            /\ draws' = Append(draws, [roundId |-> Len(rounds),
                                       numbers |-> join(local[p].req.body.numbers.v)])
            /\ res' # NULL
            /\ res'.response.status = 204]_vars

\* A second /store-results for a round that is not the first was refused.
C7_Witness ==
  /\ Sent(247)
  /\ Len(rounds) >= 2
  /\ DrawOf(draws, Len(rounds)) # NULL

\* C8: with requests one at a time, a /new-round request received while a
\* Round is open returns at once and leaves the Round table as it is, with
\* exactly one open Round; a /new-round that creates a round leaves exactly
\* one open.
C8_OpenNewRoundIdempotent ==
  [][\A p \in Procs :
       /\ NewRoundGet(p) /\ OpenIds(rounds) # {} =>
            /\ pc'[p] = "idle"
            /\ rounds' = rounds
            /\ Cardinality(OpenIds(rounds')) = 1
       /\ NewRoundCreate(p) => Cardinality(OpenIds(rounds')) = 1]_vars

\* A /new-round request found a round open and returned.
C8_Witness == Sent(228) /\ Cardinality(OpenIds(rounds)) = 1

\* C9: no step removes a Round, a Round that is closed stays closed, and a
\* Round is created open.
C9_RoundLifecycle ==
  [][/\ Len(rounds') >= Len(rounds)
     /\ \A i \in 1..Len(rounds) : ~rounds[i].isOpen => ~rounds'[i].isOpen
     /\ \A i \in (Len(rounds) + 1)..Len(rounds') : rounds'[i].isOpen]_vars

\* A round was closed and a later one is open.
C9_Witness == Len(rounds) >= 2 /\ ~rounds[1].isOpen /\ rounds[Len(rounds)].isOpen

\* C10: GET /t/:id answers 404 when no Ticket has the id; for a Ticket it
\* says the numbers are not published exactly when the ticket's Round has no
\* Draw.
C10_NotPublishedIffNoDraw ==
  [][\A p \in Procs : \A id \in TicketIds :
       TicketView(p, id) =>
         IF id \in 1..Len(tickets)
         THEN /\ res'.response.status = 200
              /\ res'.response.notPublished
                   <=> (DrawOf(draws, tickets[id].roundId) = NULL)
         ELSE res'.response.status = 404]_vars

\* The constraints of the data model on a personalId and on a sequence of
\* numbers, stated apart from the schema.
PersonalIdOk(chars) ==
  /\ Len(chars) \in 1..20
  /\ \A i \in 1..Len(chars) : chars[i] \in {Digits[d] : d \in 1..10} \cup Letters

CountOk(arr) == Len(arr) \in 6..10

RangeOk(arr) == \A i \in 1..Len(arr) : arr[i].kind = "int" /\ arr[i].v \in 1..45

DistinctOk(arr) == \A i, j \in 1..Len(arr) : arr[i] = arr[j] => i = j

NumbersOk(arr) == CountOk(arr) /\ RangeOk(arr) /\ DistinctOk(arr)

\* A request body meets the constraints.
BodyOk(body) ==
  /\ body.personalId.t = "string" /\ PersonalIdOk(body.personalId.v)
  /\ body.numbers.t = "string" /\ NumbersOk(parseNumbers(body.numbers.v))

\* A stored row meets the constraints.
TicketOk(t) == PersonalIdOk(t.personalId) /\ NumbersOk(mapNumber(split(t.numbersCsv)))

\* C11: every stored Ticket has a personalId of 1 to 20 letters and digits
\* and 6 to 10 pairwise distinct whole numbers from 1 to 45; with a round
\* open, POST /tickets stores a Ticket exactly for a body that meets these
\* constraints and answers every other body with 400, storing nothing.
C11_TicketConstraints ==
  [][/\ \A i \in 1..Len(tickets') : TicketOk(tickets'[i])
     /\ \A p \in Procs :
          TicketsCreate(p) =>
            IF BodyOk(local[p].req.body)
            THEN Len(tickets') = Len(tickets) + 1 /\ pc'[p] = "t_qr"
            ELSE tickets' = tickets /\ pc'[p] = "idle" /\ res' # NULL
                 /\ res'.response.status = 400]_vars

\* A ticket of ten numbers with a personalId of twenty characters is stored.
C11_Witness ==
  /\ Len(tickets) = 1
  /\ Len(tickets[1].personalId) = 20
  /\ Len(mapNumber(split(tickets[1].numbersCsv))) = 10

\* The error the order InvalidPersonalId, InvalidCount, InvalidRange,
\* DuplicateNumbers reports for a body whose numbers are a string.
FirstFailure(body) ==
  LET arr == parseNumbers(body.numbers.v)
  IN  IF ~(body.personalId.t = "string" /\ PersonalIdOk(body.personalId.v))
        THEN "InvalidPersonalId"
      ELSE IF ~CountOk(arr) THEN "InvalidCount"
      ELSE IF ~RangeOk(arr) THEN "InvalidRange"
      ELSE IF ~DistinctOk(arr) THEN "DuplicateNumbers"
      ELSE "none"

\* The error a 400 response of POST /tickets reports, by its first message.
Reported(messages) ==
  IF messages[1] \in {"personalId: Required", "Osobna/putovnica je obavezna.",
                       "Predugacak broj dokumenta.", "Smiju biti samo slova i brojke."}
    THEN "InvalidPersonalId"
  ELSE IF messages[1] = "Mora biti od 6 do 10 brojeva." THEN "InvalidCount"
  ELSE IF messages[1] = "Svi brojevi moraju biti cijeli izmedu 1 i 45." THEN "InvalidRange"
  ELSE IF messages[1] = "Ne smije biti duplikata." THEN "DuplicateNumbers"
  ELSE "other"

\* C12: the validation of POST /tickets reports the first failure in the
\* order InvalidPersonalId, InvalidCount, InvalidRange, DuplicateNumbers.
C12_FirstFailureWins ==
  [][\A p \in Procs :
       (/\ TicketsCreate(p)
        /\ local[p].req.body.numbers.t = "string"
        /\ ~BodyOk(local[p].req.body))
       => /\ res' # NULL
          /\ Reported(res'.response.body) = FirstFailure(local[p].req.body)]_vars

\* C17: the numbers of a stored Ticket, read back as GET /t/:id reads them,
\* are the whole numbers of the request in their order.
C17_NumbersRoundTrip ==
  [][\A p \in Procs :
       (TicketsCreate(p) /\ Len(tickets') = Len(tickets) + 1)
       => LET row == tickets'[Len(tickets')]
          IN  TicketPage(row, NULL).nums = parseNumbers(local[p].req.body.numbers.v)]_vars

\* A ticket whose numbers are not in ascending order was stored and GET /t/:id
\* shows them in the order of the request.
C17_Witness ==
  /\ Sent(200)
  /\ res.response.status = 200
  /\ res.response.nums = <<Int_(1), Int_(2), Int_(3), Int_(4), Int_(7), Int_(6)>>

\* C13: POST /store-results checks, in this order, that no round is open,
\* that a round exists, that the latest round has no Draw and that numbers is
\* an array, and reports the first check that fails; a request that fails
\* creates no Draw.
C13_PublishDrawChecksInOrder ==
  [][\A p \in Procs :
       /\ \A body \in DrawBodies :
            StoreResultsGetOpen(p, body) =>
              /\ draws' = draws
              /\ IF OpenIds(rounds) # {}
                 THEN /\ pc'[p] = "idle" /\ res' # NULL
                      /\ res'.response = Response(400, "Uplate su aktivne.")
                 ELSE pc'[p] = "sr_getLast"
       /\ StoreResultsGetLast(p) =>
            /\ draws' = draws
            /\ IF rounds = <<>>
               THEN /\ pc'[p] = "idle" /\ res' # NULL
                    /\ res'.response = Response(400, "Nema evidentiranih kola.")
               ELSE IF DrawOf(draws, Len(rounds)) # NULL
               THEN /\ pc'[p] = "idle" /\ res' # NULL
                    /\ res'.response = Response(400, "Rezultati vec postoje.")
               ELSE IF local[p].req.body.numbers.t # "array"
               THEN /\ pc'[p] = "idle" /\ res' # NULL
                    /\ res'.response = Response(400, "Nedostaje polje numbers.")
               ELSE pc'[p] = "sr_create"
       /\ StoreResultsCreate(p) =>
            \/ res'.response.status = 204 /\ Len(draws') = Len(draws) + 1
            \/ res'.response.status # 204 /\ draws' = draws]_vars

\* The numbers were missing for a latest round that is closed and has no Draw,
\* after an earlier round got its Draw.
C13_Witness ==
  /\ Sent(248)
  /\ Len(rounds) >= 2
  /\ DrawOf(draws, 1) # NULL
  /\ DrawOf(draws, Len(rounds)) = NULL

\* C14: a POST /tickets request that answers with a 4xx status, the failure of
\* the QR step after the insert included, has stored no Ticket.
C14_FailureStoresNoTicket ==
  [][\A p \in Procs :
       (/\ TicketsCreate(p) \/ TicketsQr(p)
        /\ res' # NULL
        /\ res'.response.status \in 400..499)
       => local[p].ticket = NULL /\ tickets' = tickets]_vars

\* C15: POST /close with no round open changes no table; with a round open it
\* sets isOpen of that round to false and changes no other Round, no Ticket
\* and no Draw.
C15_CloseFrame ==
  [][\A p \in Procs :
       /\ CloseGet(p) =>
            /\ store' = store
            /\ IF OpenIds(rounds) = {} THEN pc'[p] = "idle" ELSE pc'[p] = "cl_update"
       /\ CloseUpdate(p) =>
            /\ \E i \in 1..Len(rounds) :
                 /\ OpenIds(rounds) = {i}
                 /\ rounds' = [rounds EXCEPT ![i].isOpen = FALSE]
            /\ tickets' = tickets
            /\ draws' = draws]_vars

\* The second round was closed while the first keeps its ticket and its Draw.
C15_Witness ==
  /\ Sent(238)
  /\ Len(rounds) >= 2
  /\ OpenIds(rounds) = {}
  /\ tickets # <<>>
  /\ draws # <<>>

\* C16: no step changes or removes a Ticket or a Draw; the steps of
\* /new-round and /close leave the tickets and the draws alone, those of
\* /tickets the rounds and the draws, those of /store-results the rounds and
\* the tickets, and GET /t/:id every table.
C16_Frames ==
  [][/\ Len(tickets') >= Len(tickets)
     /\ \A i \in 1..Len(tickets) : tickets'[i] = tickets[i]
     /\ Len(draws') >= Len(draws)
     /\ \A i \in 1..Len(draws) : draws'[i] = draws[i]
     /\ \A p \in Procs :
          /\ (NewRoundGet(p) \/ NewRoundUpdateMany(p) \/ NewRoundCreate(p)
                 \/ CloseGet(p) \/ CloseUpdate(p))
               => tickets' = tickets /\ draws' = draws
          /\ ((\E body \in TicketBodies : TicketsGet(p, body))
                 \/ TicketsCreate(p) \/ TicketsQr(p))
               => rounds' = rounds /\ draws' = draws
          /\ ((\E body \in DrawBodies : StoreResultsGetOpen(p, body))
                 \/ StoreResultsGetLast(p) \/ StoreResultsCreate(p))
               => rounds' = rounds /\ tickets' = tickets
          /\ (\E id \in TicketIds : TicketView(p, id)) => store' = store]_vars

\* A second /store-results request for a round that has its Draw was
\* rejected by the unique index, and a ticket is stored.
C16_Witness == Sent(250) /\ draws # <<>> /\ tickets # <<>>

\* C18: no Ticket is created for a Round that has a Draw, whatever the
\* interleaving of /tickets, /close and /store-results.
C18_NoTicketAfterDraw ==
  [][Len(tickets') > Len(tickets)
       => DrawOf(draws, tickets'[Len(tickets')].roundId) = NULL]_vars

\* C19: when requests run one at a time an open Round is the Round with the
\* greatest id, so getOpenRound and getLastRound return the same Round
\* whenever a round is open.
C19_OpenRoundIsLatest ==
  /\ OpenIds(rounds) \subseteq {Len(rounds)}
  /\ OpenIds(rounds) # {} => getOpenRound(rounds, draws) = {getLastRound(rounds, draws)}

\* The latest of several rounds is open and an earlier one has its Draw.
C19_Witness ==
  /\ Len(rounds) >= 2
  /\ rounds[Len(rounds)].isOpen
  /\ DrawOf(draws, 1) # NULL

\* C20: /store-results binds a Draw to the Round with the greatest id at its
\* lookup, and a Round that is closed, has no Draw and is not the latest any
\* more gets no Draw in any later state.
C20_SupersededRoundGetsNoDraw ==
  [][/\ \A p \in Procs :
          (StoreResultsGetLast(p) /\ pc'[p] = "sr_create")
            => local'[p].last.id = Len(rounds)
     /\ \A i \in 1..Len(rounds) :
          (i < Len(rounds) /\ ~rounds[i].isOpen /\ DrawOf(draws, i) = NULL)
            => DrawOf(draws', i) = NULL]_vars

====
